---- MODULE Spec2Model ----
(***************************************************************************)
(* Model of the blocking-pop coordinator of the Parser class               *)
(* (app/parser/parser.js, latest revision) together with the connection    *)
(* data handler of app/main.js.                                            *)
(*                                                                         *)
(* One action is one callback of the Node.js event loop: a data handler    *)
(* of a connection running one command to completion, the check phase      *)
(* running every queued setImmediate callback, one setTimeout callback,    *)
(* a connection being closed by its peer, or the clock advancing.          *)
(*                                                                         *)
(* RPUSH, LPUSH and LPOP never look at the connection they arrive on, so   *)
(* they carry none: some client sends them.  Connections are numbered in   *)
(* the order of their first BLPOP.                                         *)
(*                                                                         *)
(* Two specifications share the variables: Spec is the coordinator with    *)
(* several connections; StoreSpec is the key-value store, one client       *)
(* sending SET, GET, INCR and the list commands to handleCommand.          *)
(***************************************************************************)
EXTENDS Integers, Sequences, FiniteSets, TLC

\* ------------------------------------------------------------------ bounds
MaxReq        == 3   \* BLPOP requests issued over a run
MaxVal        == 2   \* values pushed over a run (each value is distinct)
MaxTime       == 1   \* clock ticks; also the largest BLPOP timeout
MaxImmediates == 1   \* setImmediate callbacks queued at once
\* The store specification:
MaxNum        == 3   \* largest integer part INCR counts up to
MaxLen        == 3   \* longest list a push builds
MaxMs         == 1   \* milliseconds the clock can stand past a whole second
MaxSec        == 1   \* whole seconds the clock reaches
MaxWaiting    == 1   \* sockets queued on a key at once
\* The list specification:
MaxIndex      == 4   \* LRANGE indices run over -MaxIndex .. MaxIndex

Keys     == {"l"}
ReqIds   == 1..MaxReq
Conns    == 1..MaxReq     \* connections that issue BLPOP, in accept order
Vals     == 1..MaxVal
Timeouts == 0..MaxTime

\* The value Array.prototype.shift() returns on an empty array.
Undefined == 0
\* database[k] / socktes[k] when the key is not a property of the object.
NoEntry == [present |-> FALSE, value |-> <<>>]
NoQueue == [present |-> FALSE, q |-> <<>>]
NoReq   == [key |-> "", sock |-> 0, timeout |-> 0]
\* { value: [...] } and a socktes[k] array.
ListEntry(list) == [present |-> TRUE, value |-> list]
Queue(q) == [present |-> TRUE, q |-> q]
NoCount == 0 - 1

VARIABLES
  database,    \* this.database : key -> NoEntry or ListEntry(list)
  socktes,     \* this.socktes  : key -> NoQueue or Queue(waiting sockets)
  listeners,   \* number of once-listeners registered for `data:${key}`
  immediates,  \* keys of the queued setImmediate(() => emit(`data:${key}`))
  timers,      \* pending setTimeout callbacks: [req, deadline]
  reqs,        \* the arguments of each BLPOP call: key, socket, timeout
  resp,        \* what has been written to the socket for each BLPOP request
  destroyed,   \* socket.destroyed of each connection
  nextVal,     \* next fresh value a client will push
  now,         \* the clock
  crashed,     \* an exception left a callback uncaught: the process is gone
  lastCmd,     \* history: the last command received for each key
  quiet        \* history: requests with a pending timer and no push since

vars == <<database, socktes, listeners, immediates, timers, reqs, resp,
          destroyed, nextVal, now, crashed, lastCmd, quiet>>

\* ------------------------------------------------------------------ helpers
Min(a, b) == IF a < b THEN a ELSE b

RECURSIVE Reverse(_)
Reverse(s) == IF s = <<>> THEN <<>> ELSE Append(Reverse(Tail(s)), Head(s))

\* Array.prototype.shift(): the removed head, or undefined on an empty array.
ShiftItem(s) == IF s = <<>> THEN Undefined ELSE Head(s)
ShiftRest(s) == IF s = <<>> THEN <<>> ELSE Tail(s)

\* serialize(null) and serialize([listName, item]) as written to a socket.
NullReply == [kind |-> "null", key |-> "", item |-> Undefined]
ArrayReply(k, item) == [kind |-> "array", key |-> k, item |-> item]

\* The list stored under k ([] when the key is missing).
ListOf(db, k) == db[k].value
\* The sockets queued under k ([] when the key is missing).
QueueOf(sk, k) == sk[k].q

Issued(r) == reqs[r].sock # 0
NextReq == Cardinality({r \in ReqIds : Issued(r)}) + 1

\* lastCmd[k] records the last command received for key k, as far as a later
\* wake-up depends on it. op "blpop": req is the request, when it found the key
\* missing from the database and no socket queued. op "rpush" / "lpush": n
\* values were pushed; m is the number of sockets that were queued if the list
\* was empty then (0 otherwise); req is the BLPOP request recorded by the
\* command just before it. Any other command: NoCmd.
NoCmd == [op |-> "other", n |-> 0, m |-> 0, req |-> 0]
BlpopCmd(r) == [op |-> "blpop", n |-> 0, m |-> 0, req |-> r]
PushCmd(op, n, m, r) == [op |-> op, n |-> n, m |-> m, req |-> r]

\* ------------------------------------------------------------------ Init
Init ==
  /\ database = [k \in Keys |-> NoEntry]
  /\ socktes = [k \in Keys |-> NoQueue]
  /\ listeners = [k \in Keys |-> 0]
  /\ immediates = <<>>
  /\ timers = {}
  /\ reqs = [r \in ReqIds |-> NoReq]
  /\ resp = [r \in ReqIds |-> <<>>]
  /\ destroyed = [c \in Conns |-> FALSE]
  /\ nextVal = 1
  /\ now = 0
  /\ crashed = FALSE
  /\ lastCmd = [k \in Keys |-> NoCmd]
  /\ quiet = {}

\* ------------------------------------------------------------------ push
\* The values of one push: n fresh values in argument order.
PushValues(n) == [i \in 1..n |-> nextVal + i - 1]

\* setImmediate(() => this.emitter.emit(`data:${listName}`)) when a socket waits.
ScheduleWake(k) ==
  IF socktes[k].present /\ Len(socktes[k].q) > 0
  THEN Append(immediates, k)
  ELSE immediates

PushGhost(op, k, n) ==
  PushCmd(op, n,
          IF ListOf(database, k) = <<>> THEN Len(QueueOf(socktes, k)) ELSE 0,
          IF lastCmd[k].op = "blpop" THEN lastCmd[k].req ELSE 0)

\* A slip that puts the pushed values at the head (unshift for push).
RpushListFront(old, vals) == vals \o old

\* value.push(...listValues)
RpushList(old, vals) == old \o vals

Rpush(k, n) ==
  /\ ~crashed
  /\ nextVal + n - 1 <= MaxVal
  /\ Len(ScheduleWake(k)) <= MaxImmediates
  /\ database' = [database EXCEPT ![k] =
                    ListEntry(RpushList(ListOf(database, k), PushValues(n)))]
  /\ immediates' = ScheduleWake(k)
  /\ nextVal' = nextVal + n
  /\ lastCmd' = [lastCmd EXCEPT ![k] = PushGhost("rpush", k, n)]
  /\ quiet' = {r \in quiet : reqs[r].key # k}
  /\ UNCHANGED <<socktes, listeners, timers, reqs, resp, destroyed, now, crashed>>

\* A slip that leaves out the reverse() of the pushed values.
LpushListKeeps(old, vals) == vals \o old

\* [...listValues.reverse(), ...value]
LpushList(old, vals) == Reverse(vals) \o old

Lpush(k, n) ==
  /\ ~crashed
  /\ nextVal + n - 1 <= MaxVal
  /\ Len(ScheduleWake(k)) <= MaxImmediates
  /\ database' = [database EXCEPT ![k] =
                    ListEntry(LpushList(ListOf(database, k), PushValues(n)))]
  /\ immediates' = ScheduleWake(k)
  /\ nextVal' = nextVal + n
  /\ lastCmd' = [lastCmd EXCEPT ![k] = PushGhost("lpush", k, n)]
  /\ quiet' = {r \in quiet : reqs[r].key # k}
  /\ UNCHANGED <<socktes, listeners, timers, reqs, resp, destroyed, now, crashed>>

\* ------------------------------------------------------------------ LPOP
\* handleLpop: splice(0, deleteCount) with a count, shift() without one.
LpopList(old, count) ==
  IF count # NoCount
  THEN SubSeq(old, Min(count, Len(old)) + 1, Len(old))
  ELSE ShiftRest(old)

Lpop(k, count) ==
  /\ ~crashed
  /\ IF ~database[k].present
     THEN \* this.database[listName] is undefined: reading .value throws
          /\ crashed' = TRUE
          /\ UNCHANGED database
     ELSE /\ database' = [database EXCEPT ![k] =
                            ListEntry(LpopList(database[k].value, count))]
          /\ UNCHANGED crashed
  /\ lastCmd' = [lastCmd EXCEPT ![k] = NoCmd]
  /\ UNCHANGED <<socktes, listeners, immediates, timers, reqs, resp, destroyed,
                 nextVal, now, quiet>>

\* ------------------------------------------------------------------ BLPOP
\* if (data && data.value.length > 0)
HasData(k) == database[k].present /\ Len(database[k].value) > 0

\* A slip that reads the head and leaves it in the list (value[0] for shift()).
PopHeadKeeps(list) == list

\* data.value.shift() on a non-empty list.
PopHead(list) == Tail(list)

\* if (timeout > 0) setTimeout(..., timeout * 1000)
ArmsTimer(t) == t > 0

\* if (this.socktes[listName].length === 1) this.emitter.once(...)
RegistersListener(queue) == Len(queue) = 1

\* A BLPOP arrives on an open connection or on a newly accepted one.
Opened == {reqs[r].sock : r \in {q \in ReqIds : Issued(q)}}
MayIssue(c) == c <= Cardinality(Opened) + 1 /\ ~destroyed[c]

BLpop(c, k, t) ==
  LET r == NextReq
      queue == Append(QueueOf(socktes, k), r)
  IN
  /\ ~crashed /\ MayIssue(c)
  /\ r <= MaxReq
  /\ reqs' = [reqs EXCEPT ![r] =
                [key |-> k, sock |-> c, timeout |-> t]]
  /\ lastCmd' = [lastCmd EXCEPT ![k] =
                   IF ~database[k].present /\ QueueOf(socktes, k) = <<>>
                   THEN BlpopCmd(r) ELSE NoCmd]
  /\ IF HasData(k)
     THEN /\ resp' = [resp EXCEPT ![r] =
                        Append(@, ArrayReply(k, Head(database[k].value)))]
          /\ database' = [database EXCEPT ![k] = ListEntry(PopHead(database[k].value))]
          /\ UNCHANGED <<socktes, listeners, timers, quiet>>
     ELSE /\ socktes' = [socktes EXCEPT ![k] = Queue(queue)]
          /\ timers' = IF ArmsTimer(t)
                       THEN timers \cup {[req |-> r, deadline |-> now + t]}
                       ELSE timers
          /\ quiet' = IF ArmsTimer(t) THEN quiet \cup {r} ELSE quiet
          /\ listeners' = IF RegistersListener(queue)
                          THEN [listeners EXCEPT ![k] = @ + 1]
                          ELSE listeners
          /\ UNCHANGED <<database, resp>>
  /\ UNCHANGED <<immediates, destroyed, nextVal, now, crashed>>

\* ------------------------------------------------------------------ timers
\* The setTimeout callback of BLPOP request r.
TimeoutQueue(sk, k) == [sk EXCEPT ![k] = NoQueue]

TimerDue(tm) == tm.deadline <= now

TimerFire(tm) ==
  LET r == tm.req IN
  /\ ~crashed
  /\ tm \in timers
  /\ TimerDue(tm)
  /\ immediates = <<>>      \* the check phase runs before the next timers phase
  /\ \A other \in timers : tm.deadline <= other.deadline
  /\ timers' = timers \ {tm}
  /\ socktes' = TimeoutQueue(socktes, reqs[r].key)
  /\ resp' = IF ~destroyed[reqs[r].sock]
             THEN [resp EXCEPT ![r] = Append(@, NullReply)]
             ELSE resp
  /\ quiet' = quiet \ {r}
  /\ UNCHANGED <<database, listeners, immediates, reqs, destroyed, nextVal, now,
                 crashed, lastCmd>>

Tick ==
  /\ ~crashed
  /\ now < MaxTime
  /\ \A tm \in timers : ~TimerDue(tm)  \* a due timer runs before the clock moves on
  /\ now' = now + 1
  /\ UNCHANGED <<database, socktes, listeners, immediates, timers, reqs, resp,
                 destroyed, nextVal, crashed, lastCmd, quiet>>

\* ------------------------------------------------------------------ close
\* The peer closes connection c; main.js registers no close handler.
Close(c) ==
  /\ ~crashed /\ c \in Opened /\ ~destroyed[c]
  /\ destroyed' = [destroyed EXCEPT ![c] = TRUE]
  /\ UNCHANGED <<database, socktes, listeners, immediates, timers, reqs, resp,
                 nextVal, now, crashed, lastCmd, quiet>>

\* ------------------------------------------------------------------ wake
\* The part of the state the listeners of `data:${key}` read and write.
Store == [db |-> database, sk |-> socktes, lis |-> listeners, resp |-> resp,
          crashed |-> crashed]

RECURSIVE Emit(_, _), EmitFrom(_, _, _), Listener(_, _)

\* this.emitter.emit(`data:${k}`): the listeners registered at the call run in
\* turn; a once-listener is removed before it runs and never runs twice.
Emit(st, k) == EmitFrom(st, k, st.lis[k])

EmitFrom(st, k, n) ==
  IF n = 0 \/ st.crashed \/ st.lis[k] = 0
  THEN st
  ELSE EmitFrom(Listener([st EXCEPT !.lis[k] = @ - 1], k), k, n - 1)

\* sockt && !sockt.destroyed
Writable(queue) == queue # <<>> /\ ~destroyed[reqs[Head(queue)].sock]

\* The callback given to this.emitter.once(`data:${listName}`, ...).
Listener(st, k) ==
  IF ~st.sk[k].present \/ ~st.db[k].present
  THEN [st EXCEPT !.crashed = TRUE]   \* .shift() / .value of undefined throws
  ELSE
    LET queue == st.sk[k].q
        list == st.db[k].value
        item == ShiftItem(list)
        st1 == [st EXCEPT !.sk[k] = Queue(ShiftRest(queue)),
                          !.db[k] = ListEntry(ShiftRest(list)),
                          !.resp = IF Writable(queue)
                                   THEN [@ EXCEPT ![Head(queue)] =
                                           Append(@, ArrayReply(k, item))]
                                   ELSE @]
    IN IF Len(st1.sk[k].q) > 0 /\ Len(st1.db[k].value) > 0
       THEN Emit(st1, k)
       ELSE st1

RECURSIVE RunAll(_, _)
RunAll(st, imms) ==
  IF imms = <<>> \/ st.crashed THEN st ELSE RunAll(Emit(st, Head(imms)), Tail(imms))

\* The check phase: every queued setImmediate callback runs, in order.
RunImmediates ==
  LET st == RunAll(Store, immediates) IN
  /\ ~crashed
  /\ immediates # <<>>
  /\ immediates' = <<>>
  /\ database' = st.db
  /\ socktes' = st.sk
  /\ listeners' = st.lis
  /\ resp' = st.resp
  /\ crashed' = st.crashed
  /\ UNCHANGED <<timers, reqs, destroyed, nextVal, now, lastCmd, quiet>>

\* ------------------------------------------------------------------ Next
\* A push carries at least one value, as every Redis client sends it.
PushSizes == 1..MaxVal
Deadlines == 1..(2 * MaxTime)
Counts == {NoCount} \cup (0..MaxVal)

Next ==
  \/ \E k \in Keys, n \in PushSizes : Rpush(k, n)
  \/ \E k \in Keys, n \in PushSizes : Lpush(k, n)
  \/ \E k \in Keys, count \in Counts : Lpop(k, count)
  \/ \E c \in Conns, k \in Keys, t \in Timeouts : BLpop(c, k, t)
  \/ \E r \in ReqIds, d \in Deadlines : TimerFire([req |-> r, deadline |-> d])
  \/ RunImmediates
  \/ \E c \in Conns : Close(c)
  \/ Tick

Spec == Init /\ [][Next]_vars

\* ------------------------------------------------------------------ claims
Last(s) == s[Len(s)]
IsArray(reply) == reply.kind = "array"
\* The step is the check phase running the queued wake-ups.
WakeStep == immediates # <<>> /\ immediates' = <<>>
\* Request r is written a reply in this step.
Written(r) == resp'[r] # resp[r]
Live(r) == ~destroyed[reqs[r].sock]
\* Request r is the only BLPOP its connection has sent.
Alone(r) == \A q \in ReqIds \ {r} : reqs[q].sock # reqs[r].sock
\* The waiters of the queue are live and belong to different connections.
Separate(queue) ==
  /\ \A i \in 1..Len(queue) : Live(queue[i])
  /\ \A i, j \in 1..Len(queue) : i # j => reqs[queue[i]].sock # reqs[queue[j]].sock

\* C1: every BLPOP request is written at most one reply over its lifetime:
\* a timer that fires after the waiter was served writes nothing, and a push
\* after the waiter timed out delivers nothing to it.
C1_AtMostOneResponse == \A r \in ReqIds : Len(resp[r]) <= 1

\* C2: when M >= 1 waiters (live, of different connections) are queued on a key whose list is empty and one
\* push adds N elements, the wake-up of that push (no other command on the key
\* in between) serves exactly the first min(M, N) waiters in queue order, the
\* i-th of them receiving the i-th element from the head, and leaves the other
\* N - min(M, N) elements in the list.
C2_CascadingWake ==
  [][\A k \in Keys :
       LET c == lastCmd[k]
           queue == QueueOf(socktes, k)
           list == ListOf(database, k)
           served == Min(c.m, c.n)
       IN (/\ WakeStep
           /\ c.op \in {"rpush", "lpush"} /\ c.m >= 1
           /\ Separate(queue))
          => /\ \A i \in 1..served :
                  resp'[queue[i]] = Append(resp[queue[i]], ArrayReply(k, list[i]))
             /\ \A i \in (served + 1)..Len(queue) : ~Written(queue[i])
             /\ ListOf(database', k) = SubSeq(list, served + 1, Len(list))
             /\ QueueOf(socktes', k) = SubSeq(queue, served + 1, Len(queue))]_vars

\* C3: once every scheduled wake-up has run, no key has both a live waiter in
\* its queue and a non-empty list.
C3_NoLostWakeup ==
  (immediates = <<>> /\ ~crashed)
  => \A k \in Keys :
       ~(/\ ListOf(database, k) # <<>>
         /\ \E i \in 1..Len(QueueOf(socktes, k)) : Live(QueueOf(socktes, k)[i]))

\* C4: a push and its wake-up are one atomic step: while a wake-up is queued
\* no command touches the list or the waiter queue, and every reply a wake-up
\* writes carries an element that was in the list, never undefined.
C4_PushWakeAtomic ==
  [][/\ (immediates # <<>> /\ ~WakeStep)
          => (database' = database /\ socktes' = socktes)
     /\ \A r \in ReqIds :
          (Written(r) /\ IsArray(Last(resp'[r]))) => Last(resp'[r]).item # Undefined
    ]_vars

\* C5: a waiter whose connection has closed is not left in the queue of its
\* key, and a wake-up pops no element on behalf of a closed connection: it
\* pops exactly as many elements as it writes replies.
C5_ClosedWaiterRemoved ==
  /\ [](\A k \in Keys : \A i \in 1..Len(QueueOf(socktes, k)) :
          Live(QueueOf(socktes, k)[i]))
  /\ [][\A k \in Keys :
          (WakeStep /\ ~crashed')
          => Len(ListOf(database, k)) - Len(ListOf(database', k))
               = Cardinality({r \in ReqIds : reqs[r].key = k /\ Written(r)})]_vars

\* C6: when the timer of one waiter fires, only that waiter leaves the queue of
\* its key; the other waiters stay queued in their order.
C6_TimeoutRemovesOnlyItsWaiter ==
  [][\A tm \in timers :
       LET k == reqs[tm.req].key IN
       (tm \notin timers' /\ Separate(QueueOf(socktes, k)))
       => QueueOf(socktes', k) = SelectSeq(QueueOf(socktes, k), LAMBDA r : r # tm.req)
    ]_vars

\* C7: a BLPOP with timeout > 0 that blocks, with no push to its key afterwards
\* and no other BLPOP on its connection, is written nothing before its timer fires and exactly the Null reply when
\* it fires (not before the deadline); no request is written Null twice, and
\* a BLPOP with timeout 0 is never written Null.
NullCount(r) == Cardinality({i \in 1..Len(resp[r]) : resp[r][i] = NullReply})

C7_TimeoutDeliversNullOnce ==
  /\ [](\A r \in quiet : Alone(r) => resp[r] = <<>>)
  /\ [](\A r \in ReqIds : NullCount(r) <= (IF reqs[r].timeout = 0 THEN 0 ELSE 1))
  /\ [][\A tm \in timers :
          (tm \notin timers' /\ tm.req \in quiet /\ Alone(tm.req) /\ Live(tm.req))
          => (tm.deadline <= now /\ resp'[tm.req] = <<NullReply>>)]_vars

\* C8: key l is missing and has no waiter; connection A issues BLPOP l 0 (its
\* only BLPOP) and the next command on l is RPUSH l x: once the wake-up has run, A has been
\* written exactly [l, x], the list is empty and no waiter is queued for l.
C8_BlockThenPush ==
  \A k \in Keys :
    LET c == lastCmd[k] IN
    (/\ c.op = "rpush" /\ c.n = 1 /\ c.req # 0
     /\ reqs[c.req].timeout = 0 /\ Live(c.req) /\ Alone(c.req)
     /\ immediates = <<>> /\ ~crashed)
    => /\ resp[c.req] = <<ArrayReply(k, nextVal - 1)>>
       /\ ListOf(database, k) = <<>>
       /\ QueueOf(socktes, k) = <<>>

\* C9: BLPOP on a key whose list is non-empty is answered at once with
\* [key, head], removes exactly the head of the list, queues no waiter, arms no
\* timer and registers no listener, whatever the timeout.
C9_ImmediatePop ==
  [][\A r \in ReqIds :
       LET k == reqs'[r].key
           list == ListOf(database, k)
       IN (~Issued(r) /\ reqs'[r] # NoReq /\ list # <<>>)
          => /\ resp'[r] = <<ArrayReply(k, Head(list))>>
             /\ ListOf(database', k) = Tail(list)
             /\ \A j \in Keys \ {k} : database'[j] = database[j]
             /\ socktes' = socktes
             /\ timers' = timers
             /\ listeners' = listeners
             /\ immediates' = immediates]_vars

\* A request with a timeout was answered at once from a non-empty list: it has
\* its element and no timer was ever armed for it.
C9_Witness ==
  \E r \in ReqIds :
    /\ Issued(r) /\ reqs[r].timeout > 0 /\ Live(r)
    /\ Len(resp[r]) = 1 /\ IsArray(resp[r][1]) /\ resp[r][1].item # Undefined
    /\ \A tm \in timers : tm.req # r

\* C10: for two waiters on a key, each the only BLPOP of its connection, the
\* one that blocked later is never served by
\* a wake-up while the earlier one is still waiting (written nothing, its
\* connection open).
StillWaiting(r) == Issued(r) /\ resp[r] = <<>> /\ Live(r)

C10_FirstBlockedFirstServed ==
  [][\A r1, r2 \in ReqIds :
       (/\ r1 < r2 /\ reqs[r1].key = reqs[r2].key
        /\ Alone(r1) /\ Alone(r2)
        /\ StillWaiting(r1) /\ StillWaiting(r2)
        /\ WakeStep /\ Written(r2))
       => Written(r1)]_vars

\* ======================================================================
\* The key-value store: one client sending commands to handleCommand, one
\* command run to completion per step.  The clock of this specification
\* counts milliseconds (Date.now()).
\* ======================================================================

\* ------------------------------------------------------------------ JS values
\* A string is the sequence of its characters.
DigitChars == <<"0", "1", "2", "3", "4", "5", "6", "7", "8", "9">>
IsDigit(c) == \E i \in 1..Len(DigitChars) : DigitChars[i] = c
DigitVal(c) == (CHOOSE i \in 1..Len(DigitChars) : DigitChars[i] = c) - 1
IsSpace(c) == c = " "

\* A JS number: NaN, or int + frac / 10 with one decimal digit frac.
NaN == [nan |-> TRUE, int |-> 0, frac |-> 0]
JsNum(i, f) == [nan |-> FALSE, int |-> i, frac |-> f]
\* -x
Negate(x) ==
  IF x.nan THEN NaN
  ELSE IF x.frac = 0 THEN JsNum(0 - x.int, 0)
  ELSE JsNum(0 - x.int - 1, 10 - x.frac)

RECURSIVE TrimStart(_)
TrimStart(s) == IF s # <<>> /\ IsSpace(Head(s)) THEN TrimStart(Tail(s)) ELSE s
RECURSIVE TrimEnd(_)
TrimEnd(s) ==
  IF s # <<>> /\ IsSpace(s[Len(s)]) THEN TrimEnd(SubSeq(s, 1, Len(s) - 1)) ELSE s

\* The longest prefix of digits of s, and the value of a sequence of digits.
RECURSIVE DigitPrefix(_)
DigitPrefix(s) ==
  IF s # <<>> /\ IsDigit(Head(s)) THEN <<Head(s)>> \o DigitPrefix(Tail(s)) ELSE <<>>
RECURSIVE DigitsValue(_)
DigitsValue(s) ==
  IF s = <<>> THEN 0
  ELSE 10 * DigitsValue(SubSeq(s, 1, Len(s) - 1)) + DigitVal(s[Len(s)])

IsSign(c) == c = "-" \/ c = "+"
Unsigned(s) == IF s # <<>> /\ IsSign(Head(s)) THEN Tail(s) ELSE s
IsNegative(s) == s # <<>> /\ Head(s) = "-"

\* parseInt(text, 10): leading white space, a sign, then the longest run of
\* digits; NaN when there is no digit. Whatever follows the digits is ignored.
parseInt(s) ==
  LET t == TrimStart(s)
      digits == DigitPrefix(Unsigned(t))
  IN IF digits = <<>> THEN NaN
     ELSE IF IsNegative(t) THEN Negate(JsNum(DigitsValue(digits), 0))
     ELSE JsNum(DigitsValue(digits), 0)

\* Number(text): white space trimmed; the empty string is 0; a sign, digits and
\* at most one point with digits after it; anything else is NaN.
StringToNumber(s) ==
  LET t == TrimEnd(TrimStart(s))
      u == Unsigned(t)
      whole == DigitPrefix(u)
      rest == SubSeq(u, Len(whole) + 1, Len(u))
      decimals == IF rest # <<>> /\ Head(rest) = "." THEN Tail(rest) ELSE <<>>
      wellFormed == /\ rest = <<>> \/ Head(rest) = "."
                    /\ DigitPrefix(decimals) = decimals
                    /\ Len(whole) + Len(decimals) > 0
      magnitude == JsNum(DigitsValue(whole),
                         IF decimals = <<>> THEN 0 ELSE DigitVal(decimals[1]))
  IN IF t = <<>> THEN JsNum(0, 0)
     ELSE IF ~wellFormed THEN NaN
     ELSE IF IsNegative(t) THEN Negate(magnitude)
     ELSE magnitude

\* The decimal digits of a natural number.
RECURSIVE NatToString(_)
NatToString(n) ==
  IF n < 10 THEN <<DigitChars[n + 1]>>
  ELSE NatToString(n \div 10) \o <<DigitChars[(n % 10) + 1]>>

\* String(number)
NumberToString(x) ==
  IF x.nan THEN <<"N", "a", "N">>
  ELSE LET negative == x.int < 0
           m == IF negative THEN Negate(x) ELSE x
           text == NatToString(m.int)
                     \o (IF m.frac = 0 THEN <<>> ELSE <<".", DigitChars[m.frac + 1]>>)
       IN IF negative THEN <<"-">> \o text ELSE text

\* A JS value, tagged with what typeof / Array.isArray tell of it.
JsUndefined == [type |-> "undefined", text |-> <<>>, num |-> NaN, items |-> <<>>]
JsNull == [type |-> "null", text |-> <<>>, num |-> NaN, items |-> <<>>]
JsString(t) == [type |-> "string", text |-> t, num |-> NaN, items |-> <<>>]
JsNumber(x) == [type |-> "number", text |-> <<>>, num |-> x, items |-> <<>>]
JsArray(a) == [type |-> "array", text |-> <<>>, num |-> NaN, items |-> a]

IsString(v) == v.type = "string"
IsNumber(v) == v.type = "number"
IsArrayValue(v) == v.type = "array"

\* [...text]: the characters of a string, each a string of its own.
Spread(t) == [i \in 1..Len(t) |-> JsString(<<t[i]>>)]

\* array.join(","): the texts of the elements, separated by commas.
RECURSIVE Join(_)
Join(a) ==
  IF a = <<>> THEN <<>>
  ELSE IF Len(a) = 1 THEN a[1].text
  ELSE a[1].text \o <<",">> \o Join(Tail(a))

\* String(value)
String(v) ==
  IF IsString(v) THEN v.text
  ELSE IF IsNumber(v) THEN NumberToString(v.num)
  ELSE IF IsArrayValue(v) THEN Join(v.items)
  ELSE IF v.type = "null" THEN <<"n", "u", "l", "l">>
  ELSE <<"u", "n", "d", "e", "f", "i", "n", "e", "d">>

\* Number(value)
Number(v) ==
  IF IsNumber(v) THEN v.num
  ELSE IF IsString(v) THEN StringToNumber(v.text)
  ELSE IF IsArrayValue(v) THEN StringToNumber(Join(v.items))
  ELSE IF v.type = "null" THEN JsNum(0, 0)
  ELSE NaN

\* value.length: defined for strings and arrays only.
LengthOf(v) ==
  IF IsString(v) THEN JsNum(Len(v.text), 0)
  ELSE IF IsArrayValue(v) THEN JsNum(Len(v.items), 0)
  ELSE NaN

\* if (x): a value is truthy unless it is undefined, null, "", 0 or NaN.
Truthy(v) ==
  IF IsString(v) THEN v.text # <<>>
  ELSE IF IsNumber(v) THEN ~v.num.nan /\ (v.num.int # 0 \/ v.num.frac # 0)
  ELSE IsArrayValue(v)

\* ------------------------------------------------------------------ replies
\* What a handler hands to connection.write, by the form of its bytes.
Reply(kind, msg, text, num, items) ==
  [kind |-> kind, msg |-> msg, text |-> text, num |-> num, items |-> items]
\* "$-1\r\n"
NullBulk == Reply("null", "", <<>>, NaN, <<>>)
\* A literal line with its CRLF, such as "+OK\r\n" or "-ERR ...\r\n".
Line(msg) == Reply("line", msg, <<>>, NaN, <<>>)
\* A literal line returned without the CRLF.
Unterminated(msg) == Reply("unterminated", msg, <<>>, NaN, <<>>)
\* `${data}\r\n` for a string that starts with "+" or "-".
Verbatim(t) == Reply("verbatim", "", t, NaN, <<>>)
\* `$${byteLength}\r\n${data}\r\n`
Bulk(t) == Reply("bulk", "", t, NaN, <<>>)
\* `:${data}\r\n`
IntegerReply(x) == Reply("integer", "", <<>>, x, <<>>)
\* `*${data.length}\r\n` and the replies of the items.
ArrayOf(replies) == Reply("array", "", <<>>, NaN, replies)
Unsupported == Line("-ERR Unsupported data type")

StartsWithSigil(t) == t # <<>> /\ IsSign(Head(t))

\* serialize(data) for a value that is not an array.
serializeScalar(v) ==
  IF v.type = "null" THEN NullBulk
  ELSE IF IsString(v)
       THEN (IF StartsWithSigil(v.text) THEN Verbatim(v.text) ELSE Bulk(v.text))
  ELSE IF IsNumber(v) THEN IntegerReply(v.num)
  ELSE Unsupported

\* serialize(data); the items of the arrays the handlers build are not arrays.
serialize(v) ==
  IF IsArrayValue(v)
  THEN ArrayOf([i \in 1..Len(v.items) |-> serializeScalar(v.items[i])])
  ELSE serializeScalar(v)

\* ------------------------------------------------------------------ store state
\* this.database[key]: undefined, or { value, expire }.
Absent == [present |-> FALSE, value |-> JsUndefined, expire |-> JsUndefined]
Entry(value, expire) == [present |-> TRUE, value |-> value, expire |-> expire]

\* Date.now() as a JS number.
DateNow == JsNum(now, 0)

\* const [a, b, c, d] = args: a position past the end is undefined.
ArgAt(args, i) == IF i <= Len(args) THEN args[i] ELSE JsUndefined

\* The name of a key as the string the client sent.
KeyText(k) == <<k>>
KeyArg(k) == JsString(KeyText(k))
\* The key an argument names (the requests of this model name no other key).
KeyOf(arg) == CHOOSE k \in Keys : KeyText(k) = arg.text

\* The last command received, and what a step leaves behind.
Command(op, args) == [op |-> op, args |-> args]
NoCommand == Command("", <<>>)

\* main.js: if (response) connection.write(response): a handler's return value
\* is written unless it is undefined.
Returned(reply) == <<reply>>
ReturnedNothing == <<>>

\* One command ran: the store after it, what was written, or an exception
\* that nothing catches.
Completes(cmd, db, writes) ==
  /\ database' = db
  /\ resp' = writes
  /\ lastCmd' = cmd
  /\ UNCHANGED crashed
Throws(cmd) ==
  /\ crashed' = TRUE
  /\ resp' = <<>>
  /\ lastCmd' = cmd
  /\ UNCHANGED database

\* ------------------------------------------------------------------ SET
\* The letters toUpperCase changes, and what it makes of them.
LowerChars == <<"a", "b", "c", "d", "e", "f", "g", "h", "i", "j", "k", "l", "m",
                "n", "o", "p", "q", "r", "s", "t", "u", "v", "w", "x", "y", "z">>
UpperChars == <<"A", "B", "C", "D", "E", "F", "G", "H", "I", "J", "K", "L", "M",
                "N", "O", "P", "Q", "R", "S", "T", "U", "V", "W", "X", "Y", "Z">>
UpperOf(c) ==
  IF \E i \in 1..Len(LowerChars) : LowerChars[i] = c
  THEN UpperChars[CHOOSE i \in 1..Len(LowerChars) : LowerChars[i] = c]
  ELSE c
toUpperCase(t) == [i \in 1..Len(t) |-> UpperOf(t[i])]

WrongArgsSet == Line("-ERR wrong number of arguments for 'set' command")
NotAnInteger == Line("-ERR value is not an integer or out of range")
Ok == Line("+OK")

\* isNaN(n) || n <= 0
NotPositive(n) == n.nan \/ n.int < 0 \/ (n.int = 0 /\ n.frac = 0)

\* The switch of handleSet: the expiry, or the range error.
SetExpire(setComm, nextArg) ==
  LET amount == parseInt(String(nextArg)) IN
  IF setComm = <<"E", "X">>
  THEN [error |-> NotPositive(amount),
        expire |-> JsNumber(JsNum(now + amount.int * 1000, 0))]
  ELSE IF setComm = <<"P", "X">>
  THEN [error |-> NotPositive(amount),
        expire |-> JsNumber(JsNum(now + amount.int, 0))]
  ELSE [error |-> FALSE, expire |-> JsNull]

handleSet(args) ==
  LET key == ArgAt(args, 1)
      value == ArgAt(args, 2)
      setCommand == ArgAt(args, 3)
      nextArg == ArgAt(args, 4)
      setComm == IF IsString(setCommand) THEN toUpperCase(setCommand.text) ELSE <<>>
      e == SetExpire(setComm, nextArg)
      cmd == Command("SET", args)
  IN
  /\ ~crashed
  /\ IF ~Truthy(key) \/ ~Truthy(value)
     THEN Completes(cmd, database, Returned(WrongArgsSet))
     ELSE IF e.error
     THEN Completes(cmd, database, Returned(NotAnInteger))
     ELSE Completes(cmd,
                    [database EXCEPT ![KeyOf(key)] = Entry(value, e.expire)],
                    Returned(Ok))
  /\ UNCHANGED <<socktes, listeners, immediates, timers, reqs, destroyed, nextVal,
                 now, quiet>>

\* ------------------------------------------------------------------ GET
WrongType ==
  Line("-ERR WRONGTYPE Operation against a key holding the wrong kind of value")

\* A slip that turns the comparison round (Date.now() < entry.expire).
ExpiredBefore(entry) == IsNumber(entry.expire) /\ now < entry.expire.num.int

\* entry.expire !== null && Date.now() > entry.expire
Expired(entry) == IsNumber(entry.expire) /\ now > entry.expire.num.int

handleGet(args) ==
  LET getKey == ArgAt(args, 1)
      k == KeyOf(getKey)
      entry == database[k]
      cmd == Command("GET", args)
  IN
  /\ ~crashed
  /\ IF ~entry.present
     THEN Completes(cmd, database, Returned(NullBulk))
     ELSE IF IsArrayValue(entry.value)
     THEN Completes(cmd, database, Returned(WrongType))
     ELSE IF Expired(entry)
     THEN Completes(cmd, [database EXCEPT ![k] = Absent], Returned(NullBulk))
     ELSE Completes(cmd, database,
                    Returned(serialize(JsString(String(entry.value)))))
  /\ UNCHANGED <<socktes, listeners, immediates, timers, reqs, destroyed, nextVal,
                 now, quiet>>

\* ------------------------------------------------------------------ INCR
\* A slip that returns the number without adding to it.
IncrementLost(x) == x

\* num++
Increment(x) == JsNum(x.int + 1, x.frac)

\* if (val && num) num++; else num = 1;
IncrResult(present, num) ==
  IF present /\ Truthy(JsNumber(num)) THEN Increment(num) ELSE JsNum(1, 0)

handleIncr(args) ==
  LET key == ArgAt(args, 1)
      k == KeyOf(key)
      val == database[k]
      num == Number(val.value)
      next == IncrResult(val.present, num)
      cmd == Command("INCR", args)
  IN
  /\ ~crashed
  /\ next.int <= MaxNum
  /\ IF val.present /\ num.nan
     THEN Completes(cmd, database, Returned(NotAnInteger))
     ELSE Completes(cmd,
                    [database EXCEPT ![k] = Entry(JsNumber(next), JsNull)],
                    Returned(serialize(JsNumber(next))))
  /\ UNCHANGED <<socktes, listeners, immediates, timers, reqs, destroyed, nextVal,
                 now, quiet>>

\* ------------------------------------------------------------------ RPUSH, LPUSH
\* The values one push carries are strings; [...listValues].
handleRpush(args) ==
  LET listName == ArgAt(args, 1)
      k == KeyOf(listName)
      listValues == Tail(args)
      entry == database[k]
      list == RpushList(entry.value.items, listValues)
      cmd == Command("RPUSH", args)
  IN
  /\ ~crashed
  /\ Len(list) <= MaxLen
  /\ Len(ScheduleWake(k)) <= MaxImmediates
  /\ IF entry.present /\ ~IsArrayValue(entry.value)
     THEN \* value.push is not a function
          /\ Throws(cmd)
          /\ UNCHANGED immediates
     ELSE /\ Completes(cmd,
                       [database EXCEPT ![k] =
                          IF entry.present THEN Entry(JsArray(list), entry.expire)
                          ELSE Entry(JsArray(list), JsUndefined)],
                       Returned(serialize(JsNumber(JsNum(Len(list), 0)))))
          /\ immediates' = ScheduleWake(k)
  /\ UNCHANGED <<socktes, listeners, timers, reqs, destroyed, nextVal, now, quiet>>

\* [...value]: the items of an array, the characters of a string.
Spreadable(v) == IsArrayValue(v) \/ IsString(v)
SpreadOf(v) == IF IsString(v) THEN Spread(v.text) ELSE v.items

handleLpush(args) ==
  LET listName == ArgAt(args, 1)
      k == KeyOf(listName)
      listValues == Tail(args)
      entry == database[k]
      list == LpushList(SpreadOf(entry.value), listValues)
      cmd == Command("LPUSH", args)
  IN
  /\ ~crashed
  /\ Len(list) <= MaxLen
  /\ Len(ScheduleWake(k)) <= MaxImmediates
  /\ IF entry.present /\ ~Spreadable(entry.value)
     THEN \* a number is not iterable
          /\ Throws(cmd)
          /\ UNCHANGED immediates
     ELSE /\ Completes(cmd,
                       [database EXCEPT ![k] =
                          IF entry.present THEN Entry(JsArray(list), entry.expire)
                          ELSE Entry(JsArray(list), JsUndefined)],
                       Returned(serialize(JsNumber(JsNum(Len(list), 0)))))
          /\ immediates' = ScheduleWake(k)
  /\ UNCHANGED <<socktes, listeners, timers, reqs, destroyed, nextVal, now, quiet>>

\* ------------------------------------------------------------------ LRANGE, LLEN
\* Arithmetic and comparison of whole JS numbers; a comparison with NaN is false.
Plus(x, y) == IF x.nan \/ y.nan THEN NaN ELSE JsNum(x.int + y.int, 0)
Less(x, y) == ~x.nan /\ ~y.nan /\ x.int < y.int
MathMax(x, y) == IF x.nan \/ y.nan THEN NaN ELSE IF x.int > y.int THEN x ELSE y
MathMin(x, y) == IF x.nan \/ y.nan THEN NaN ELSE IF x.int < y.int THEN x ELSE y
Zero == JsNum(0, 0)

\* value.slice(from, to) of an array or of a string, 0 <= from.
SliceItems(items, from, to) == SubSeq(items, from + 1, Min(to, Len(items)))
Slice(v, from, to) ==
  IF IsString(v) THEN JsString(SliceItems(v.text, from.int, to.int))
  ELSE JsArray(SliceItems(v.items, from.int, to.int))

WrongArgsLrange == Unterminated("-ERR wrong number of arguments for LRANGE")
NotAnIntegerBare == Unterminated("-ERR value is not an integer or out of range")
EmptyArray == serialize(JsArray(<<>>))

\* if (start < 0) start = Math.max(value.length + start, 0);
NormalStart(start, length) ==
  IF Less(start, Zero) THEN MathMax(Plus(length, start), Zero) ELSE start
\* A slip that leaves a negative end index as it was sent.
NormalEndRaw(end, length) == end

\* if (end < 0) end = value.length + end;
NormalEnd(end, length) == IF Less(end, Zero) THEN Plus(length, end) ELSE end
\* A slip that takes start = end for an empty range (start >= end).
OutOfRangeInclusive(start, end, length) ==
  (~start.nan /\ ~length.nan /\ start.int >= length.int)
    \/ (~start.nan /\ ~end.nan /\ end.int <= start.int)

\* start >= value.length || start > end
OutOfRange(start, end, length) ==
  (~start.nan /\ ~length.nan /\ start.int >= length.int) \/ Less(end, start)

handleLrange(args) ==
  LET lName == ArgAt(args, 1)
      k == KeyOf(lName)
      start0 == parseInt(String(ArgAt(args, 2)))
      end0 == parseInt(String(ArgAt(args, 3)))
      value == database[k].value
      length == LengthOf(value)
      start == NormalStart(start0, length)
      end == NormalEnd(end0, length)
      cmd == Command("LRANGE", args)
  IN
  /\ ~crashed
  /\ IF ~Truthy(lName)
     THEN Completes(cmd, database, Returned(WrongArgsLrange))
     ELSE IF start0.nan \/ end0.nan
     THEN Completes(cmd, database, Returned(NotAnIntegerBare))
     ELSE IF ~database[k].present
     THEN Completes(cmd, database, Returned(EmptyArray))
     ELSE IF OutOfRange(start, end, length)
     THEN Completes(cmd, database, Returned(EmptyArray))
     ELSE IF IsNumber(value)
     THEN Throws(cmd)     \* value.slice is not a function
     ELSE Completes(cmd, database,
                    Returned(serialize(Slice(value, start,
                                             MathMin(length, Plus(end, JsNum(1, 0)))))))
  /\ UNCHANGED <<socktes, listeners, immediates, timers, reqs, destroyed, nextVal,
                 now, quiet>>

WrongArgsLlen == Unterminated("-ERR wrong number of arguments for LLEN")

\* serialize(value.length): the length of a number is undefined.
LengthReply(v) ==
  IF LengthOf(v).nan THEN serialize(JsUndefined) ELSE serialize(JsNumber(LengthOf(v)))

handleLlen(args) ==
  LET listName == ArgAt(args, 1)
      k == KeyOf(listName)
      cmd == Command("LLEN", args)
  IN
  /\ ~crashed
  /\ IF ~Truthy(listName)
     THEN Completes(cmd, database, Returned(WrongArgsLlen))
     ELSE IF ~database[k].present
     THEN Completes(cmd, database, Returned(serialize(JsNumber(Zero))))
     ELSE Completes(cmd, database, Returned(LengthReply(database[k].value)))
  /\ UNCHANGED <<socktes, listeners, immediates, timers, reqs, destroyed, nextVal,
                 now, quiet>>

\* ------------------------------------------------------------------ LPOP
WrongArgsLpop == Unterminated("-ERR wrong number of arguments for LPOP")

\* The integer splice(0, deleteCount) makes of its argument: Number(deleteCount)
\* truncated, NaN taken as 0, kept within 0..length.
SpliceCount(deleteCount, length) ==
  LET n == Number(deleteCount)
      whole == IF n.nan THEN 0
               ELSE IF n.int < 0 /\ n.frac # 0 THEN n.int + 1 ELSE n.int
  IN IF whole < 0 THEN 0 ELSE Min(whole, length)

\* array.shift(): the head, or undefined on an empty array.
ShiftValue(items) == IF items = <<>> THEN JsUndefined ELSE Head(items)

handleLpop(args) ==
  LET listName == ArgAt(args, 1)
      deleteCount == ArgAt(args, 2)
      k == KeyOf(listName)
      entry == database[k]
      items == entry.value.items
      n == SpliceCount(deleteCount, Len(items))
      cmd == Command("LPOP", args)
  IN
  /\ ~crashed
  /\ IF ~Truthy(listName)
     THEN Completes(cmd, database, Returned(WrongArgsLpop))
     ELSE IF ~entry.present \/ ~IsArrayValue(entry.value)
     THEN \* .value of undefined; splice / shift is not a function
          Throws(cmd)
     ELSE IF Truthy(deleteCount)
     THEN Completes(cmd,
                    [database EXCEPT ![k] =
                       Entry(JsArray(LpopList(items, n)), entry.expire)],
                    Returned(serialize(JsArray(SubSeq(items, 1, n)))))
     ELSE Completes(cmd,
                    [database EXCEPT ![k] =
                       Entry(JsArray(LpopList(items, NoCount)), entry.expire)],
                    Returned(serialize(ShiftValue(items))))
  /\ UNCHANGED <<socktes, listeners, immediates, timers, reqs, destroyed, nextVal,
                 now, quiet>>

\* ------------------------------------------------------------------ BLPOP
\* The connection of the client.
Client == 1

\* data && data.value.length > 0
HasLength(entry) == entry.present /\ Less(Zero, LengthOf(entry.value))

handleBLpop(args) ==
  LET listName == ArgAt(args, 1)
      timeout == ArgAt(args, 2)
      k == KeyOf(listName)
      data == database[k]
      queue == Append(QueueOf(socktes, k), Client)
      cmd == Command("BLPOP", args)
  IN
  /\ ~crashed
  /\ IF HasLength(data)
     THEN /\ IF ~IsArrayValue(data.value)
             THEN Throws(cmd)    \* a string has no shift
             ELSE Completes(cmd,
                            [database EXCEPT ![k] =
                               Entry(JsArray(PopHead(data.value.items)), data.expire)],
                            <<serialize(JsArray(<<listName, Head(data.value.items)>>))>>)
          /\ UNCHANGED <<socktes, listeners>>
     ELSE /\ Len(queue) <= MaxWaiting
          /\ ~ArmsTimer(Number(timeout).int)
          /\ socktes' = [socktes EXCEPT ![k] = Queue(queue)]
          /\ listeners' = IF RegistersListener(queue)
                          THEN [listeners EXCEPT ![k] = @ + 1]
                          ELSE listeners
          /\ Completes(cmd, database, ReturnedNothing)
  /\ UNCHANGED <<immediates, timers, reqs, destroyed, nextVal, now, quiet>>

\* ------------------------------------------------------------------ wake
\* What the listeners of `data:${key}` read and write in this specification.
StoreState == [db |-> database, sk |-> socktes, lis |-> listeners,
               writes |-> <<>>, crashed |-> FALSE]

RECURSIVE EmitData(_, _), EmitDataFrom(_, _, _), DataListener(_, _)

EmitData(st, k) == EmitDataFrom(st, k, st.lis[k])

EmitDataFrom(st, k, n) ==
  IF n = 0 \/ st.crashed \/ st.lis[k] = 0
  THEN st
  ELSE EmitDataFrom(DataListener([st EXCEPT !.lis[k] = @ - 1], k), k, n - 1)

DataListener(st, k) ==
  IF ~st.sk[k].present \/ ~st.db[k].present \/ ~IsArrayValue(st.db[k].value)
  THEN [st EXCEPT !.crashed = TRUE]   \* shift of undefined, or not a function
  ELSE
    LET queue == st.sk[k].q
        items == st.db[k].value.items
        item == ShiftValue(items)
        st1 == [st EXCEPT !.sk[k] = Queue(ShiftRest(queue)),
                          !.db[k] = Entry(JsArray(ShiftRest(items)), @.expire),
                          !.writes = IF queue # <<>> /\ ~destroyed[Head(queue)]
                                     THEN Append(@, serialize(JsArray(<<KeyArg(k), item>>)))
                                     ELSE @]
    IN IF Len(st1.sk[k].q) > 0 /\ Len(st1.db[k].value.items) > 0
       THEN EmitData(st1, k)
       ELSE st1

RECURSIVE RunAllData(_, _)
RunAllData(st, imms) ==
  IF imms = <<>> \/ st.crashed THEN st
  ELSE RunAllData(EmitData(st, Head(imms)), Tail(imms))

\* The check phase of the event loop in this specification.
CheckPhase ==
  LET st == RunAllData(StoreState, immediates) IN
  /\ ~crashed
  /\ immediates # <<>>
  /\ immediates' = <<>>
  /\ database' = st.db
  /\ socktes' = st.sk
  /\ listeners' = st.lis
  /\ resp' = st.writes
  /\ crashed' = st.crashed
  /\ lastCmd' = NoCommand
  /\ UNCHANGED <<timers, reqs, destroyed, nextVal, now, quiet>>

\* ------------------------------------------------------------------ clock
Instants == {ms + sec * 1000 : ms \in 0..MaxMs, sec \in 0..MaxSec}

Elapse(t) ==
  /\ ~crashed
  /\ t > now
  /\ now' = t
  /\ resp' = <<>>
  /\ lastCmd' = NoCommand
  /\ UNCHANGED <<database, socktes, listeners, immediates, timers, reqs, destroyed,
                 nextVal, crashed, quiet>>

\* ------------------------------------------------------------------ dispatcher
\* handleCommand([]): commandName is undefined and has no toUpperCase.
EmptyRequest ==
  /\ ~crashed
  /\ Throws(Command("empty", <<>>))
  /\ UNCHANGED <<socktes, listeners, immediates, timers, reqs, destroyed, nextVal,
                 now, quiet>>

\* `-ERR unknown command '${commandName}'\r\n`
UnknownReply(name) == Reply("line", "-ERR unknown command", name, NaN, <<>>)

UnknownCommand(name) ==
  /\ ~crashed
  /\ Completes(Command("unknown", <<JsString(name)>>), database,
               Returned(UnknownReply(name)))
  /\ UNCHANGED <<socktes, listeners, immediates, timers, reqs, destroyed, nextVal,
                 now, quiet>>

\* ------------------------------------------------------------------ requests
\* The strings the client sends.
ScalarTexts == {<<"a", "b", "c">>, <<"1", ".", "5">>, <<" ">>, <<"0">>,
                <<"-", "1">>, <<"2">>}
\* The values sent together with an expiry.
ExpiringTexts == {<<"a", "b", "c">>, <<"2">>}
ModeTexts == {<<"E", "X">>, <<"p", "x">>}
AmountTexts == {<<"a", "b", "c">>, <<"0">>, <<"-", "1">>, <<"1">>, <<"1", "x">>}
PushTexts == {<<"x">>, <<"2">>}
IndexTexts == {<<"0">>, <<"-", "1">>, <<"a", "b", "c">>}
CountTexts == {<<"0">>, <<"1">>, <<"5">>}
UnknownNames == {<<"F", "O", "O">>}

Strings(texts) == {JsString(t) : t \in texts}
KeyArgs == {KeyArg(k) : k \in Keys}

\* SET with its value, its expiry mode and its amount left out from the right.
SetRequests ==
  {<<key>> : key \in KeyArgs}
    \cup (KeyArgs \X Strings(ScalarTexts))
    \cup (KeyArgs \X Strings(ExpiringTexts) \X Strings(ModeTexts))
    \cup (KeyArgs \X Strings(ExpiringTexts) \X Strings(ModeTexts) \X Strings(AmountTexts))
KeyRequests == {<<key>> : key \in KeyArgs}
PushRequests ==
  (KeyArgs \X Strings(PushTexts))
    \cup (KeyArgs \X Strings(PushTexts) \X Strings(PushTexts))
LrangeRequests ==
  {<<>>} \cup (KeyArgs \X Strings(IndexTexts) \X Strings(IndexTexts))
LlenRequests == {<<>>} \cup KeyRequests
LpopRequests == {<<>>} \cup KeyRequests \cup (KeyArgs \X Strings(CountTexts))
BLpopRequests == KeyArgs \X Strings({<<"0">>})

StoreInit ==
  /\ database = [k \in Keys |-> Absent]
  /\ socktes = [k \in Keys |-> NoQueue]
  /\ listeners = [k \in Keys |-> 0]
  /\ immediates = <<>>
  /\ timers = {}
  /\ reqs = [r \in ReqIds |-> NoReq]
  /\ resp = <<>>
  /\ destroyed = [c \in Conns |-> FALSE]
  /\ nextVal = 1
  /\ now = 0
  /\ crashed = FALSE
  /\ lastCmd = NoCommand
  /\ quiet = {}

StoreNext ==
  \/ \E args \in SetRequests : handleSet(args)
  \/ \E args \in KeyRequests : handleGet(args)
  \/ \E args \in KeyRequests : handleIncr(args)
  \/ \E args \in PushRequests : handleRpush(args)
  \/ \E args \in PushRequests : handleLpush(args)
  \/ \E args \in LrangeRequests : handleLrange(args)
  \/ \E args \in LlenRequests : handleLlen(args)
  \/ \E args \in LpopRequests : handleLpop(args)
  \/ \E args \in BLpopRequests : handleBLpop(args)
  \/ CheckPhase
  \/ \E t \in Instants : Elapse(t)
  \/ EmptyRequest
  \/ \E name \in UnknownNames : UnknownCommand(name)

StoreSpec == StoreInit /\ [][StoreNext]_vars

\* ------------------------------------------------------------------ store claims
\* The step runs the command op (every other step clears lastCmd).
Ran(op) == lastCmd'.op = op
\* The one reply the step returned.
Answered(reply) == resp' = <<reply>>
ErrorReplies ==
  {WrongArgsSet, NotAnInteger, WrongType, WrongArgsLrange, NotAnIntegerBare,
   WrongArgsLlen, WrongArgsLpop, Unsupported}
    \cup {UnknownReply(name) : name \in UnknownNames}
AnsweredError == \E reply \in ErrorReplies : Answered(reply)

\* C11: no request makes a handler throw an exception nothing catches (an
\* empty request array, an unknown command, a missing argument, a key of the
\* wrong type, a missing key), and a request answered with an error leaves the
\* store as it was.
C11_NoFatalRequest ==
  /\ [](~crashed)
  /\ [][AnsweredError => database' = database]_vars

\* The decimal form of an integer: digits, with "-" before them when negative.
IsIntegerText(t) == Unsigned(t) # <<>> /\ DigitPrefix(Unsigned(t)) = Unsigned(t)
                    /\ (t # <<>> /\ Head(t) # "+")
IntOf(t) == IF IsNegative(t) THEN 0 - DigitsValue(Unsigned(t)) ELSE DigitsValue(t)

\* The step runs op on key k; Given(i): the i-th argument was sent.
RanOn(op, k) == Ran(op) /\ Len(lastCmd'.args) >= 1 /\ lastCmd'.args[1] = KeyArg(k)
Given(i) == Len(lastCmd'.args) >= i
\* The list under k, empty when the key is missing.
Items(db, k) == db[k].value.items
ListOrMissing(k) == ~database[k].present \/ IsArrayValue(database[k].value)

\* C12: LPOP without a count on a non-empty list returns the head and removes
\* it; on a missing key or an empty list it returns Null and changes nothing;
\* LPOP with count c on a list returns and removes its first min(c, length)
\* elements in list order.
C12_Lpop ==
  [][\A k \in Keys :
       (RanOn("LPOP", k) /\ ListOrMissing(k))
       => LET items == Items(database, k)
              n == Min(IntOf(lastCmd'.args[2].text), Len(items))
          IN IF ~Given(2)
             THEN IF items = <<>>
                  THEN ~crashed' /\ Answered(NullBulk) /\ database' = database
                  ELSE /\ Answered(serialize(Head(items)))
                       /\ Items(database', k) = Tail(items)
             ELSE database[k].present
                  => /\ Answered(serialize(JsArray(SubSeq(items, 1, n))))
                     /\ Items(database', k) = SubSeq(items, n + 1, Len(items))
    ]_vars

\* The entry is live by the rule of lazy expiry: it has no expiry or its
\* expiry is still ahead.
Unexpired(entry) == ~(IsNumber(entry.expire) /\ entry.expire.num.int <= now)
HoldsScalar(k) ==
  database[k].present /\ ~IsArrayValue(database[k].value) /\ Unexpired(database[k])
HoldsList(k) == database[k].present /\ IsArrayValue(database[k].value)

\* C13: RPUSH or LPUSH on a key holding a scalar (a string stored by SET, a
\* number stored by INCR) is answered with the type error, leaves the entry as
\* it was and schedules no wake-up.
C13_PushOnScalar ==
  [][\A k \in Keys :
       ((RanOn("RPUSH", k) \/ RanOn("LPUSH", k)) /\ HoldsScalar(k))
       => /\ ~crashed'
          /\ Answered(WrongType)
          /\ database' = database
          /\ immediates' = immediates]_vars

\* The indices of an LRANGE request are decimal integers.
IntegerIndices ==
  Given(3) /\ IsIntegerText(lastCmd'.args[2].text) /\ IsIntegerText(lastCmd'.args[3].text)

\* C14: a command applied to a key holding the other variant is answered with
\* the type error and changes nothing: GET and INCR on a key holding a list;
\* LRANGE (with integer indices), LLEN, LPOP and BLPOP on a key holding a scalar.
C14_WrongTypeRejected ==
  [][\A k \in Keys :
       (\/ (RanOn("GET", k) \/ RanOn("INCR", k)) /\ HoldsList(k)
        \/ (\/ RanOn("LRANGE", k) /\ IntegerIndices
            \/ RanOn("LLEN", k) \/ RanOn("LPOP", k) \/ RanOn("BLPOP", k))
           /\ HoldsScalar(k))
       => /\ ~crashed'
          /\ Answered(WrongType)
          /\ database' = database
          /\ socktes' = socktes /\ listeners' = listeners]_vars

\* The expiry a SET request asks for: none, or now + amount in milliseconds.
\* Defined for a request without a mode or with an amount that is a positive
\* decimal integer.
AskedExpire(args) ==
  IF Len(args) < 3 THEN JsNull
  ELSE IF toUpperCase(args[3].text) = <<"E", "X">>
  THEN JsNumber(JsNum(now + IntOf(args[4].text) * 1000, 0))
  ELSE JsNumber(JsNum(now + IntOf(args[4].text), 0))
WellFormedSet(args) ==
  /\ Len(args) \in {2, 4}
  /\ Len(args) = 4 => IsIntegerText(args[4].text) /\ IntOf(args[4].text) > 0
\* GET answered the string v (a string that starts with "+" or "-" is encoded
\* without a length prefix).
AnsweredText(v) == Answered(IF StartsWithSigil(v) THEN Verbatim(v) ELSE Bulk(v))

C16_ExpiryBoundary ==
  [][\A k \in Keys :
       (/\ RanOn("GET", k)
        /\ database[k].present /\ IsString(database[k].value)
        /\ IsNumber(database[k].expire))
       => IF database[k].expire.num.int <= now
          THEN Answered(NullBulk) /\ ~database'[k].present
          ELSE AnsweredText(database[k].value.text) /\ database' = database
    ]_vars

\* The key holds a string whose expiry instant is past.
Stale(k) ==
  /\ database[k].present /\ IsString(database[k].value)
  /\ IsNumber(database[k].expire) /\ database[k].expire.num.int < now

\* C17: every command treats a scalar whose expiry is past as absent: INCR
\* returns 1 and stores 1; RPUSH and LPUSH create a list of the pushed values;
\* LLEN returns 0, LRANGE the empty array and LPOP Null; BLPOP blocks.
C17_LazyExpiryEverywhere ==
  [][\A k \in Keys :
       Stale(k) =>
         LET pushed == Tail(lastCmd'.args) IN
         /\ RanOn("INCR", k)
            => /\ Answered(IntegerReply(JsNum(1, 0)))
               /\ database'[k] = Entry(JsNumber(JsNum(1, 0)), JsNull)
         /\ RanOn("RPUSH", k)
            => /\ Answered(IntegerReply(JsNum(Len(pushed), 0)))
               /\ HoldsList(k)' /\ Items(database', k) = pushed
         /\ RanOn("LPUSH", k)
            => /\ Answered(IntegerReply(JsNum(Len(pushed), 0)))
               /\ HoldsList(k)' /\ Items(database', k) = Reverse(pushed)
         /\ RanOn("LLEN", k) => Answered(IntegerReply(Zero))
         /\ (RanOn("LRANGE", k) /\ IntegerIndices) => Answered(EmptyArray)
         /\ RanOn("LPOP", k) => ~crashed' /\ Answered(NullBulk)
         /\ RanOn("BLPOP", k)
            => ~crashed' /\ resp' = <<>> /\ QueueOf(socktes', k) # QueueOf(socktes, k)
    ]_vars

\* The request names the expiry mode EX or PX, in either case of the letters.
HasMode(args) ==
  Len(args) >= 3 /\ toUpperCase(args[3].text) \in {<<"E", "X">>, <<"P", "X">>}
\* Its amount is missing, is not the decimal form of an integer, or is not
\* positive.
BadAmount(args) ==
  Len(args) < 4 \/ ~IsIntegerText(args[4].text) \/ IntOf(args[4].text) <= 0

\* C18: SET with the mode EX or PX and an amount that is missing, not numeric,
\* zero or negative is answered with the range error and leaves the store as
\* it was; SET with fewer than two arguments is answered with the
\* wrong-number-of-arguments error and changes nothing either.
C18_SetRejectsBadAmount ==
  [][\A k \in Keys :
       RanOn("SET", k) =>
         LET args == lastCmd'.args IN
         /\ Len(args) < 2
            => Answered(WrongArgsSet) /\ database' = database
         /\ (HasMode(args) /\ BadAmount(args))
            => Answered(NotAnInteger) /\ database' = database
    ]_vars

One == JsNum(1, 0)

\* C19: INCR on an absent key returns 1 and stores 1 with no expiry; INCR on a
\* key holding the string "abc" returns the not-an-integer error and leaves the
\* entry, value and expiry, as it was; INCR on the integer n that earlier INCRs
\* stored returns n + 1 and stores it, so successive INCRs count 1, 2, 3, ...
C19_IncrCounts ==
  [][\A k \in Keys :
       RanOn("INCR", k) =>
         LET entry == database[k] IN
         /\ ~entry.present
            => /\ Answered(IntegerReply(One))
               /\ database'[k] = Entry(JsNumber(One), JsNull)
         /\ (entry.present /\ entry.value = JsString(<<"a", "b", "c">>))
            => Answered(NotAnInteger) /\ database' = database
         /\ (entry.present /\ IsNumber(entry.value) /\ entry.value.num.frac = 0)
            => LET next == JsNum(entry.value.num.int + 1, 0) IN
               /\ Answered(IntegerReply(next))
               /\ database'[k] = Entry(JsNumber(next), JsNull)
    ]_vars

\* INCR has just counted a key up to 2.
C19_Witness ==
  \E k \in Keys :
    /\ lastCmd = Command("INCR", <<KeyArg(k)>>)
    /\ resp = <<IntegerReply(JsNum(2, 0))>>
    /\ database[k] = Entry(JsNumber(JsNum(2, 0)), JsNull)

\* C20: INCR on a live string stored by SET: when the string is the decimal
\* form of an integer n (0 and negative n included) INCR returns n + 1 and
\* stores it with no expiry; when it is not (such as "1.5", " " or "abc") INCR
\* returns the not-an-integer error and changes nothing.
C20_IncrParsesInteger ==
  [][\A k \in Keys :
       (RanOn("INCR", k) /\ HoldsScalar(k) /\ IsString(database[k].value))
       => LET text == database[k].value.text
              next == JsNum(IntOf(text) + 1, 0)
          IN IF IsIntegerText(text)
             THEN /\ Answered(IntegerReply(next))
                  /\ database'[k] = Entry(JsNumber(next), JsNull)
             ELSE Answered(NotAnInteger) /\ database' = database
    ]_vars

\* ======================================================================
\* Lists: one client pushing to a key and reading ranges of it, with every
\* pair of indices from below -length to above length - 1.
\* ======================================================================
IntText(i) == NumberToString(JsNum(i, 0))
ListTexts == {<<"a">>, <<"b">>, <<"c">>}
RangeTexts == {IntText(i) : i \in (0 - MaxIndex)..MaxIndex}

RECURSIVE Tuples(_, _)
\* The sequences of n elements of S.
Tuples(S, n) ==
  IF n = 0 THEN {<<>>}
  ELSE {Append(t, x) : t \in Tuples(S, n - 1), x \in S}

ListPushRequests ==
  {<<key>> \o vals : key \in KeyArgs,
                    vals \in UNION {Tuples(Strings(ListTexts), n) : n \in 1..MaxLen}}
ListRangeRequests == KeyArgs \X Strings(RangeTexts) \X Strings(RangeTexts)

ListNext ==
  \/ \E args \in ListPushRequests : handleRpush(args)
  \/ \E args \in ListPushRequests : handleLpush(args)
  \/ \E args \in ListRangeRequests : handleLrange(args)
  \/ \E args \in KeyRequests : handleLpop(args)

ListSpec == StoreInit /\ [][ListNext]_vars

\* ------------------------------------------------------------------ list claims
\* The reply carrying the items as an array of strings.
ArrayReplyOf(items) == serialize(JsArray(items))
\* The indices an LRANGE step was sent, as integers.
StartSent == IntOf(lastCmd'.args[2].text)
EndSent == IntOf(lastCmd'.args[3].text)

\* C21: RPUSH appends its values to the tail in argument order and returns
\* the length of the list after the push; on a list, LRANGE 0 -1 returns all
\* its elements in order, LRANGE -2 -1 the last two (all of a shorter list),
\* and LRANGE 0 e with 0 <= e < length exactly the first e + 1 elements; LRANGE
\* changes nothing.
C21_RpushThenLrange ==
  [][\A k \in Keys :
       LET items == Items(database, k)
           L == Len(items)
       IN
       /\ (RanOn("RPUSH", k) /\ ListOrMissing(k))
          => /\ Items(database', k) = items \o Tail(lastCmd'.args)
             /\ HoldsList(k)'
             /\ Answered(IntegerReply(JsNum(L + Len(Tail(lastCmd'.args)), 0)))
       /\ (RanOn("LRANGE", k) /\ HoldsList(k))
          => /\ database' = database
             /\ (StartSent = 0 /\ EndSent = 0 - 1) => Answered(ArrayReplyOf(items))
             /\ (StartSent = 0 - 2 /\ EndSent = 0 - 1)
                => Answered(ArrayReplyOf(SubSeq(items, IF L < 2 THEN 1 ELSE L - 1, L)))
             /\ (StartSent = 0 /\ 0 <= EndSent /\ EndSent < L)
                => Answered(ArrayReplyOf(SubSeq(items, 1, EndSent + 1)))
    ]_vars

\* RPUSH l a b, RPUSH l c, then LRANGE l -2 -1 has just returned [b, c].
C21_Witness ==
  \E k \in Keys :
    /\ lastCmd = Command("LRANGE", <<KeyArg(k), JsString(<<"-", "2">>), JsString(<<"-", "1">>)>>)
    /\ Items(database, k) = <<JsString(<<"a">>), JsString(<<"b">>), JsString(<<"c">>)>>
    /\ resp = <<ArrayReplyOf(<<JsString(<<"b">>), JsString(<<"c">>)>>)>>

\* The values a push step carries, in call order.
Pushed == Tail(lastCmd'.args)
LengthAnswer(n) == IntegerReply(JsNum(n, 0))

\* C22 as stated: LPUSH key a b c on a list with prior contents P leaves the
\* list equal to a, b, c followed by P.
C22_LpushKeepsCallOrder ==
  [][\A k \in Keys :
       (RanOn("LPUSH", k) /\ HoldsList(k))
       => Items(database', k) = Pushed \o Items(database, k)]_vars

\* C22 amended: LPUSH key a b c on a list with prior contents P leaves the
\* list equal to c, b, a followed by P (the pushed values in the reverse of
\* their call order at the head) and returns the new length.
C22_LpushReversesCallOrder ==
  [][\A k \in Keys :
       (RanOn("LPUSH", k) /\ HoldsList(k))
       => /\ Items(database', k) = Reverse(Pushed) \o Items(database, k)
          /\ HoldsList(k)'
          /\ Answered(LengthAnswer(Len(Pushed) + Len(Items(database, k))))]_vars

\* LPUSH l a b has just run on the list [c]: the list is b, a, c.
C22_Witness ==
  \E k \in Keys :
    /\ lastCmd = Command("LPUSH", <<KeyArg(k), JsString(<<"a">>), JsString(<<"b">>)>>)
    /\ Items(database, k) = <<JsString(<<"b">>), JsString(<<"a">>), JsString(<<"c">>)>>
    /\ resp = <<LengthAnswer(3)>>

\* The command before this step was LPUSH on k, and this step is LRANGE k 0 -1.
LrangeAllAfterLpush(k) ==
  /\ lastCmd.op = "LPUSH" /\ lastCmd.args[1] = KeyArg(k)
  /\ RanOn("LRANGE", k) /\ StartSent = 0 /\ EndSent = 0 - 1

\* C23: LPUSH l a b c on an absent key leaves the list c, b, a and on a list
\* with prior contents P the list c, b, a followed by P; LRANGE l 0 -1 right
\* after an LPUSH returns the whole list, beginning with the pushed values in
\* the reverse of their call order (the last argument first).
C23_LpushThenLrange ==
  [][\A k \in Keys :
       /\ (RanOn("LPUSH", k) /\ ListOrMissing(k))
          => /\ ~database[k].present => Items(database', k) = Reverse(Pushed)
             /\ Items(database', k) = Reverse(Pushed) \o Items(database, k)
             /\ Answered(LengthAnswer(Len(Items(database', k))))
       /\ LrangeAllAfterLpush(k)
          => LET vals == Tail(lastCmd.args)
                 items == Items(database, k)
             IN /\ Answered(ArrayReplyOf(items))
                /\ SubSeq(items, 1, Len(vals)) = Reverse(vals)
    ]_vars

\* LPUSH l a b c on the absent key, then LRANGE l 0 -1 has just returned
\* [c, b, a].
C23_Witness ==
  \E k \in Keys :
    /\ lastCmd = Command("LRANGE", <<KeyArg(k), JsString(<<"0">>), JsString(<<"-", "1">>)>>)
    /\ resp = <<ArrayReplyOf(<<JsString(<<"c">>), JsString(<<"b">>), JsString(<<"a">>)>>)>>

Max(a, b) == IF a > b THEN a ELSE b

\* The reference rule of LRANGE over a list, with every negative index i
\* replaced by max(L + i, 0).
ClampedIndex(i, L) == IF i < 0 THEN Max(L + i, 0) ELSE i
RangeBetween(items, start, end) ==
  IF start >= Len(items) \/ start > end THEN <<>>
  ELSE SubSeq(items, start + 1, Min(Len(items) - 1, end) + 1)
ReferenceRange(items, start, end) ==
  RangeBetween(items, ClampedIndex(start, Len(items)), ClampedIndex(end, Len(items)))
\* The same rule with a negative end replaced by L + end, not clamped at 0.
UnclampedEnd(i, L) == IF i < 0 THEN L + i ELSE i
CodeRange(items, start, end) ==
  RangeBetween(items, ClampedIndex(start, Len(items)), UnclampedEnd(end, Len(items)))

SimpleString(t) == Reply("line", "+", t, NaN, <<>>)
Pong == Line("+PONG")

\* handleEcho: args[0] || ""
handleEcho(args) ==
  LET echoMessage == IF Truthy(ArgAt(args, 1)) THEN ArgAt(args, 1).text ELSE <<>> IN
  /\ ~crashed
  /\ Completes(Command("ECHO", args), database, Returned(SimpleString(echoMessage)))
  /\ UNCHANGED <<socktes, listeners, immediates, timers, reqs, destroyed, nextVal,
                 now, quiet>>

handlePing(args) ==
  /\ ~crashed
  /\ Completes(Command("PING", args), database, Returned(Pong))
  /\ UNCHANGED <<socktes, listeners, immediates, timers, reqs, destroyed, nextVal,
                 now, quiet>>

\* The table of handlers: the property names of commandHandlers.
commandHandlers ==
  <<[name |-> <<"E", "C", "H", "O">>, op |-> "ECHO"],
    [name |-> <<"P", "I", "N", "G">>, op |-> "PING"],
    [name |-> <<"S", "E", "T">>, op |-> "SET"],
    [name |-> <<"G", "E", "T">>, op |-> "GET"],
    [name |-> <<"R", "P", "U", "S", "H">>, op |-> "RPUSH"],
    [name |-> <<"L", "R", "A", "N", "G", "E">>, op |-> "LRANGE"],
    [name |-> <<"L", "P", "U", "S", "H">>, op |-> "LPUSH"],
    [name |-> <<"L", "L", "E", "N">>, op |-> "LLEN"],
    [name |-> <<"L", "P", "O", "P">>, op |-> "LPOP"],
    [name |-> <<"B", "L", "P", "O", "P">>, op |-> "BLPOP"],
    [name |-> <<"I", "N", "C", "R">>, op |-> "INCR"]>>
NoHandler == ""
\* this.commandHandlers[name]
HandlerNamed(name) ==
  IF \E i \in 1..Len(commandHandlers) : commandHandlers[i].name = name
  THEN commandHandlers[CHOOSE i \in 1..Len(commandHandlers) :
                         commandHandlers[i].name = name].op
  ELSE NoHandler

\* A slip that looks the name up as it was sent.
HandlerExact(commandName) == HandlerNamed(commandName)

\* this.commandHandlers[commandName.toUpperCase()]
Handler(commandName) == HandlerNamed(toUpperCase(commandName))

handleCommand(command) ==
  LET commandName == command[1].text
      args == Tail(command)
      handler == Handler(commandName)
  IN
  \/ handler = "ECHO" /\ handleEcho(args)
  \/ handler = "PING" /\ handlePing(args)
  \/ handler = "SET" /\ handleSet(args)
  \/ handler = "GET" /\ handleGet(args)
  \/ handler = "RPUSH" /\ handleRpush(args)
  \/ handler = "LRANGE" /\ handleLrange(args)
  \/ handler = "LPUSH" /\ handleLpush(args)
  \/ handler = "LLEN" /\ handleLlen(args)
  \/ handler = "LPOP" /\ handleLpop(args)
  \/ handler = "BLPOP" /\ handleBLpop(args)
  \/ handler = "INCR" /\ handleIncr(args)
  \/ handler = NoHandler /\ UnknownCommand(commandName)

\* The spellings of a name: as in the table, in lower case, and mixed.
LowerOf(c) ==
  IF \E i \in 1..Len(UpperChars) : UpperChars[i] = c
  THEN LowerChars[CHOOSE i \in 1..Len(UpperChars) : UpperChars[i] = c]
  ELSE c
Spellings(name) ==
  {name,
   [i \in 1..Len(name) |-> LowerOf(name[i])],
   [i \in 1..Len(name) |-> IF i % 2 = 0 THEN LowerOf(name[i]) ELSE name[i]]}
\* Names the table does not hold: an unknown word in both cases, a name with
\* a letter more, a name with a letter less, and the empty string.
OtherNames ==
  {<<"F", "O", "O">>, <<"f", "o", "o">>, <<"S", "E", "T", "X">>, <<"G", "E">>, <<>>}
\* The arguments each command is sent with.
ArgsFor(op) ==
  LET key == KeyArg("l")
      text(t) == JsString(t)
  IN CASE op = "ECHO" -> {<<text(<<"h", "e", "y">>)>>, <<>>}
       [] op = "PING" -> {<<>>}
       [] op = "SET" -> {<<key, text(<<"2">>)>>}
       [] op \in {"GET", "INCR", "LLEN", "LPOP"} -> {<<key>>}
       [] op \in {"RPUSH", "LPUSH"} -> {<<key, text(<<"x">>)>>}
       [] op = "LRANGE" -> {<<key, text(<<"0">>), text(<<"-", "1">>)>>}
       [] op = "BLPOP" -> {<<key, text(<<"0">>)>>}
DispatchRequests ==
  UNION {{<<JsString(name)>> \o args : name \in Spellings(commandHandlers[i].name),
                                      args \in ArgsFor(commandHandlers[i].op)}
           : i \in 1..Len(commandHandlers)}
    \cup {<<JsString(name), KeyArg("l")>> : name \in OtherNames}

DispatchNext ==
  \/ \E command \in DispatchRequests : handleCommand(command)
  \/ CheckPhase

DispatchSpec == StoreInit /\ [][DispatchNext]_vars

\* ------------------------------------------------------------------ dispatcher claims
InTable(name) == HandlerNamed(name) # NoHandler

\* C25: a request whose name upper-cases to a name of the table (PING, ECHO,
\* SET, GET, INCR, RPUSH, LPUSH, LRANGE, LLEN, LPOP, BLPOP in any letter case)
\* runs the handler of that name on its arguments, exactly as the upper-case
\* spelling does; a request with any other name is answered
\* "-ERR unknown command '<name>'" with the name as sent and leaves the store,
\* the waiter queues, the listeners and the scheduled wake-ups unchanged.
C25_DispatchByUpperCase ==
  [][\A command \in DispatchRequests :
       handleCommand(command) =>
         LET name == command[1].text
             canonical == toUpperCase(name)
             args == Tail(command)
         IN IF InTable(canonical)
            THEN /\ lastCmd' = Command(HandlerNamed(canonical), args)
                 /\ handleCommand(<<JsString(canonical)>> \o args)
            ELSE /\ Answered(UnknownReply(name))
                 /\ ~crashed'
                 /\ database' = database
                 /\ socktes' = socktes
                 /\ listeners' = listeners
                 /\ immediates' = immediates
    ]_vars

\* The name foo, sent in lower case while the key holds a value, has just
\* been answered with the unknown-command error carrying foo as sent.
C25_Witness ==
  /\ lastCmd = Command("unknown", <<JsString(<<"f", "o", "o">>)>>)
  /\ resp = <<UnknownReply(<<"f", "o", "o">>)>>
  /\ database["l"].present

\* ------------------------------------------------------------------ error replies
\* The reply is one complete line: its text and the CRLF after it.
Terminated(reply) == reply.kind = "line"

\* C26: every command error is written as one complete reply "-ERR <message>"
\* terminated by CRLF and leaves the store unchanged; so are the errors of
\* LRANGE, LLEN and LPOP for a missing key argument and of LRANGE for an index
\* that is not an integer.
C26_ErrorsTerminated ==
  [][/\ AnsweredError => (Terminated(resp'[1]) /\ database' = database)
     /\ (Ran("LRANGE") /\ ~Given(1))
        => Answered(Line(WrongArgsLrange.msg)) /\ database' = database
     /\ (Ran("LRANGE") /\ Given(1) /\ ~IntegerIndices)
        => Answered(Line(NotAnIntegerBare.msg)) /\ database' = database
     /\ (Ran("LLEN") /\ ~Given(1))
        => Answered(Line(WrongArgsLlen.msg)) /\ database' = database
     /\ (Ran("LPOP") /\ ~Given(1))
        => Answered(Line(WrongArgsLpop.msg)) /\ database' = database
    ]_vars

\* ======================================================================
\* The codec: parserSerializeString applied to the text of one data event,
\* and serialize applied to one value, as the characters it returns.
\* ======================================================================
CRLF == <<"\r", "\n">>

\* string.indexOf("\r\n", from): the first position at or after from (counted
\* from 0) where CRLF stands, or -1.
IndexOfCRLF(string, from) ==
  LET found == {i \in from..(Len(string) - 2) :
                  string[i + 1] = "\r" /\ string[i + 2] = "\n"}
  IN IF found = {} THEN 0 - 1 ELSE CHOOSE i \in found : \A j \in found : i <= j

\* string.substring(a, b): both ends kept within 0..length, swapped when a > b.
Substring(string, a, b) ==
  LET clamp(i) == IF i < 0 THEN 0 ELSE Min(i, Len(string))
      lo == Min(clamp(a), clamp(b))
      hi == IF clamp(a) > clamp(b) THEN clamp(a) ELSE clamp(b)
  IN SubSeq(string, lo + 1, hi)

\* What a function of the parser leaves: an exception, or its result and the
\* position it has read up to.
Outcome(threw, result, index) == [threw |-> threw, result |-> result, index |-> index]

readUntilCRLF(string, index) ==
  LET end == IndexOfCRLF(string, index) IN
  IF end = 0 - 1 THEN Outcome(TRUE, <<>>, 0)
  ELSE Outcome(FALSE, Substring(string, index, end), end + 2)

parseBulkString(string, index0) ==
  LET read == readUntilCRLF(string, index0)
      header == read.result
      index == read.index
      length == parseInt(Substring(header, 1, Len(header)))
      bulkString == Substring(string, index, index + length.int)
  IN IF read.threw THEN Outcome(TRUE, <<>>, 0)
     ELSE IF header = <<>> \/ header[1] # "$" THEN Outcome(TRUE, <<>>, 0)
     ELSE IF length.nan THEN Outcome(TRUE, <<>>, 0)
     ELSE IF Substring(string, index + length.int, index + length.int + 2) # CRLF
     THEN Outcome(TRUE, <<>>, 0)
     ELSE Outcome(FALSE, bulkString, index + length.int + 2)

RECURSIVE parseElements(_, _, _, _, _)
\* for (let i = 0; i < arrayLength; i++) result.push(parseBulkString());
parseElements(string, index, i, arrayLength, result) ==
  IF i >= arrayLength THEN Outcome(FALSE, result, index)
  ELSE LET element == parseBulkString(string, index) IN
       IF element.threw THEN Outcome(TRUE, <<>>, 0)
       ELSE parseElements(string, element.index, i + 1, arrayLength,
                          Append(result, element.result))

parserSerializeString(string) ==
  LET read == readUntilCRLF(string, 0)
      arrayHeader == read.result
      arrayLength == parseInt(Substring(arrayHeader, 1, Len(arrayHeader)))
  IN IF read.threw THEN Outcome(TRUE, <<>>, 0)
     ELSE IF arrayHeader = <<>> \/ arrayHeader[1] # "*" THEN Outcome(TRUE, <<>>, 0)
     ELSE IF arrayLength.nan THEN Outcome(TRUE, <<>>, 0)
     ELSE parseElements(string, read.index, 0, arrayLength.int, <<>>)

\* Buffer.byteLength(data, "utf8"): a character outside ASCII takes more than
\* one byte; "e-acute" stands for the one such character of this model.
Utf8Width(c) == IF c = "e-acute" THEN 2 ELSE 1

\* A slip that counts characters (data.length).
CharLength(text) == Len(text)

RECURSIVE byteLength(_)
byteLength(text) ==
  IF text = <<>> THEN 0 ELSE Utf8Width(Head(text)) + byteLength(Tail(text))

RECURSIVE serializeText(_), serializeItems(_)
\* serialize(data), as the characters of the string it returns.
serializeText(data) ==
  IF data.type = "null" THEN <<"$", "-", "1">> \o CRLF
  ELSE IF IsString(data)
  THEN (IF StartsWithSigil(data.text) THEN data.text \o CRLF
        ELSE <<"$">> \o NatToString(byteLength(data.text)) \o CRLF \o data.text \o CRLF)
  ELSE IF IsNumber(data) THEN <<":">> \o NumberToString(data.num) \o CRLF
  ELSE IF IsArrayValue(data)
  THEN <<"*">> \o NatToString(Len(data.items)) \o CRLF \o serializeItems(data.items)
  ELSE <<"-", "E", "R", "R", " ", "U", "n", "s", "u", "p", "p", "o", "r", "t",
         "e", "d", " ", "d", "a", "t", "a", " ", "t", "y", "p", "e", "\r", "\n">>
\* for (const item of data) result += this.serialize(item);
serializeItems(items) ==
  IF items = <<>> THEN <<>>
  ELSE serializeText(Head(items)) \o serializeItems(Tail(items))

\* One call of the decoder on the text received.
Decode ==
  LET parsed == parserSerializeString(lastCmd.args) IN
  /\ ~crashed /\ lastCmd.op = "decode" /\ resp = <<>>
  /\ crashed' = parsed.threw
  /\ resp' = IF parsed.threw THEN <<>> ELSE <<parsed.result>>
  /\ UNCHANGED <<database, socktes, listeners, immediates, timers, reqs, destroyed,
                 nextVal, now, lastCmd, quiet>>

\* One call of the encoder on a value.
Encode ==
  /\ ~crashed /\ lastCmd.op = "encode" /\ resp = <<>>
  /\ resp' = <<serializeText(lastCmd.args[1])>>
  /\ UNCHANGED <<database, socktes, listeners, immediates, timers, reqs, destroyed,
                 nextVal, now, crashed, lastCmd, quiet>>

\* ------------------------------------------------------------------ codec inputs
\* Array headers: counts 1, 2 and 0, a count with a letter after it, a letter for
\* a count, a negative count, the wrong marker, no marker, and a header ended
\* by a bare line feed.
HeaderTexts ==
  {<<"*", "1", "\r", "\n">>,
   <<"*", "2", "\r", "\n">>,
   <<"*", "0", "\r", "\n">>,
   <<"*", "1", "x", "\r", "\n">>,
   <<"*", "x", "\r", "\n">>,
   <<"*", "-", "1", "\r", "\n">>,
   <<"$", "1", "\r", "\n">>,
   <<"\r", "\n">>,
   <<"*", "1", "\n">>}

\* Elements: a one-byte payload, the empty payload, a payload that is CRLF
\* itself, the wrong marker, a letter for a length, a length with a letter after
\* it, a payload without its CRLF, a payload shorter and one longer than
\* declared, a negative length, a two-byte character declared as two bytes and
\* as one, and no element.
ElementTexts ==
  {<<"$", "1", "\r", "\n", "a", "\r", "\n">>,
   <<"$", "0", "\r", "\n", "\r", "\n">>,
   <<"$", "2", "\r", "\n", "\r", "\n", "\r", "\n">>,
   <<":", "1", "\r", "\n", "a", "\r", "\n">>,
   <<"$", "x", "\r", "\n", "a", "\r", "\n">>,
   <<"$", "1", "x", "\r", "\n", "a", "\r", "\n">>,
   <<"$", "1", "\r", "\n", "a">>,
   <<"$", "2", "\r", "\n", "a", "\r", "\n">>,
   <<"$", "1", "\r", "\n", "a", "b", "\r", "\n">>,
   <<"$", "-", "2", "\r", "\n">>,
   <<"$", "2", "\r", "\n", "e-acute", "\r", "\n">>,
   <<"$", "1", "\r", "\n", "e-acute", "\r", "\n">>,
   <<>>}

DecodeInputs ==
  {h \o e1 \o e2 : h \in HeaderTexts, e1 \in ElementTexts, e2 \in ElementTexts}

\* Strings: empty, plain, with a sigil, and with a two-byte character.
EncodeTexts ==
  {<<>>,
   <<"O", "K">>,
   <<"+", "O", "K">>,
   <<"-", "E", "R", "R">>,
   <<"e-acute">>,
   <<"a", "e-acute">>}
EncodeIntegers == {0, 7, 123, 0 - 5}
EncodeScalars ==
  {JsNull, JsUndefined, [JsUndefined EXCEPT !.type = "boolean"]}
    \cup Strings(EncodeTexts)
    \cup {JsNumber(JsNum(n, 0)) : n \in EncodeIntegers}
\* Arrays of up to two scalars, and arrays holding arrays.
FlatArrays == {JsArray(t) : t \in Tuples(EncodeScalars, 0) \cup Tuples(EncodeScalars, 1)
                                   \cup Tuples(EncodeScalars, 2)}
NestedArrays ==
  {JsArray(<<a, x>>) : a \in {JsArray(t) : t \in Tuples(EncodeScalars, 1)} \cup {JsArray(<<>>)},
                       x \in {JsArray(<<>>), JsNull, JsString(<<"O", "K">>)}}
EncodeInputs == EncodeScalars \cup FlatArrays \cup NestedArrays

\* The text of one data event, or one value handed to serialize.
CodecInit ==
  /\ database = [k \in Keys |-> Absent]
  /\ socktes = [k \in Keys |-> NoQueue]
  /\ listeners = [k \in Keys |-> 0]
  /\ immediates = <<>>
  /\ timers = {}
  /\ reqs = [r \in ReqIds |-> NoReq]
  /\ resp = <<>>
  /\ destroyed = [c \in Conns |-> FALSE]
  /\ nextVal = 1
  /\ now = 0
  /\ crashed = FALSE
  /\ quiet = {}
  /\ lastCmd \in {Command("decode", data) : data \in DecodeInputs}
                   \cup {Command("encode", <<v>>) : v \in EncodeInputs}

CodecNext == Decode \/ Encode

CodecSpec == CodecInit /\ [][CodecNext]_vars

\* ------------------------------------------------------------------ codec claims
\* The request format read strictly: a marker, a count written in decimal
\* digits only, CRLF; a payload of exactly the declared number of bytes, CRLF.
Rejected == [ok |-> FALSE, value |-> 0, text |-> <<>>, items |-> <<>>, next |-> 0]
IsCount(text) == text # <<>> /\ DigitPrefix(text) = text

\* The header that starts at position from (counted from 0).
StrictHeader(data, from, marker) ==
  LET end == IndexOfCRLF(data, from)
      header == SubSeq(data, from + 1, end)
  IN IF end = 0 - 1 \/ header = <<>> THEN Rejected
     ELSE IF header[1] # marker \/ ~IsCount(Tail(header)) THEN Rejected
     ELSE [Rejected EXCEPT !.ok = TRUE, !.value = DigitsValue(Tail(header)),
                           !.next = end + 2]

RECURSIVE TakeBytes(_, _, _)
\* The characters from position from that make up exactly n bytes.
TakeBytes(data, from, n) ==
  IF n = 0 THEN [Rejected EXCEPT !.ok = TRUE, !.next = from]
  ELSE IF from >= Len(data) \/ Utf8Width(data[from + 1]) > n THEN Rejected
  ELSE LET rest == TakeBytes(data, from + 1, n - Utf8Width(data[from + 1])) IN
       IF ~rest.ok THEN Rejected
       ELSE [rest EXCEPT !.text = <<data[from + 1]>> \o rest.text]

StrictElement(data, from) ==
  LET header == StrictHeader(data, from, "$")
      payload == TakeBytes(data, header.next, header.value)
  IN IF ~header.ok THEN Rejected
     ELSE IF ~payload.ok THEN Rejected
     ELSE IF payload.next + 2 > Len(data) THEN Rejected
     ELSE IF SubSeq(data, payload.next + 1, payload.next + 2) # CRLF THEN Rejected
     ELSE [payload EXCEPT !.next = payload.next + 2]

RECURSIVE StrictElements(_, _, _)
StrictElements(data, from, n) ==
  IF n = 0 THEN [Rejected EXCEPT !.ok = TRUE]
  ELSE LET first == StrictElement(data, from)
           rest == StrictElements(data, first.next, n - 1)
       IN IF ~first.ok THEN Rejected
          ELSE IF ~rest.ok THEN Rejected
          ELSE [rest EXCEPT !.items = <<first.text>> \o rest.items]

StrictDecode(data) ==
  LET header == StrictHeader(data, 0, "*") IN
  IF ~header.ok THEN Rejected ELSE StrictElements(data, header.next, header.value)

\* The step is one call of the decoder.
Decoded == lastCmd.op = "decode" /\ resp = <<>> /\ (crashed' \/ resp' # <<>>)

\* C27: decoding either fails with an error or returns the strings the
\* request declares: as many as the declared count, each exactly the declared
\* number of bytes; it fails whenever the first marker is not "*", an element
\* marker is not "$", a count or length is not numeric, the CRLF after a
\* payload is missing, or the input ends before a declared length is
\* satisfied.
C27_DecodeStrict ==
  [][Decoded =>
       LET strict == StrictDecode(lastCmd.args) IN
       \/ crashed' /\ resp' = <<>>
       \/ strict.ok /\ resp' = <<strict.items>>]_vars

\* The bytes a string takes in UTF-8.
RECURSIVE Bytes(_)
Bytes(text) == IF text = <<>> THEN 0 ELSE Utf8Width(text[1]) + Bytes(Tail(text))
IsInteger(v) == IsNumber(v) /\ ~v.num.nan /\ v.num.frac = 0

RECURSIVE RuleEncode(_), RuleEncodeAll(_)
\* The encoding rules as stated.
RuleEncode(v) ==
  CASE v = JsNull -> <<"$", "-", "1">> \o CRLF
    [] IsString(v) /\ v.text # <<>> /\ v.text[1] \in {"+", "-"} -> v.text \o CRLF
    [] IsString(v) /\ (v.text = <<>> \/ v.text[1] \notin {"+", "-"})
         -> <<"$">> \o IntText(Bytes(v.text)) \o CRLF \o v.text \o CRLF
    [] IsInteger(v) -> <<":">> \o IntText(v.num.int) \o CRLF
    [] IsArrayValue(v) -> <<"*">> \o IntText(Len(v.items)) \o CRLF \o RuleEncodeAll(v.items)
    [] OTHER -> <<"-", "E", "R", "R", " ", "U", "n", "s", "u", "p", "p", "o", "r", "t", "e", "d", " ", "d", "a", "t", "a", " ", "t", "y", "p", "e">> \o CRLF
RuleEncodeAll(items) ==
  IF items = <<>> THEN <<>> ELSE RuleEncode(items[1]) \o RuleEncodeAll(Tail(items))

\* A value is waiting to be encoded.
ToEncode == lastCmd.op = "encode" /\ resp = <<>> /\ ~crashed

Queued(r) ==
  /\ Issued(r) /\ resp[r] = <<>>
  /\ \E i \in 1..Len(QueueOf(socktes, reqs[r].key)) :
       QueueOf(socktes, reqs[r].key)[i] = r

\* C29: while a BLPOP of a connection is still waiting, no further BLPOP
\* received on that connection is run against the store and the queues, so
\* that no connection is queued twice as a waiter at the same time.
C29_BlockedConnectionSuspended ==
  /\ [](\A k \in Keys : \A i, j \in 1..Len(QueueOf(socktes, k)) :
          i # j => reqs[QueueOf(socktes, k)[i]].sock # reqs[QueueOf(socktes, k)[j]].sock)
  /\ [][\A r, q \in ReqIds :
          (Queued(r) /\ ~Issued(q) /\ reqs'[q] # NoReq)
          => reqs'[q].sock # reqs[r].sock]_vars

\* The elements of a list, and those a step takes out of the list of k.
Elements(list) == {list[i] : i \in 1..Len(list)}
Removed(k) == Elements(ListOf(database, k)) \ Elements(ListOf(database', k))
\* The requests that are written the element v of key k in this step.
Receivers(k, v) ==
  {r \in ReqIds : Written(r) /\ Last(resp'[r]) = ArrayReply(k, v)}
\* The step is a BLPOP arriving.
BlpopStep == reqs' # reqs
\* How often v has been written to a connection as an element of k.
Deliveries(k, v) ==
  Cardinality({p \in ReqIds \X (1..MaxReq) :
                 p[2] <= Len(resp[p[1]]) /\ resp[p[1]][p[2]] = ArrayReply(k, v)})

\* C30: element conservation. A BLPOP answered at once and a wake-up remove
\* from the list exactly the elements they write, each to one connection; a
\* timeout and a close remove none; every reply carries an element that was in
\* the list; and no element is written to a connection twice.
C30_ElementConservation ==
  /\ [](\A k \in Keys, v \in Vals : Deliveries(k, v) <= 1)
  /\ [][\A k \in Keys :
          /\ ((WakeStep \/ BlpopStep) /\ ~crashed')
             => /\ \A v \in Removed(k) : Cardinality(Receivers(k, v)) = 1
                /\ \A r \in ReqIds :
                     (Written(r) /\ IsArray(Last(resp'[r])) /\ reqs'[r].key = k)
                     => Last(resp'[r]).item \in Removed(k)
          /\ ((timers' # timers /\ ~BlpopStep) \/ destroyed' # destroyed)
             => ListOf(database', k) = ListOf(database, k)
       ]_vars
====
